---------------------------- MODULE Spec2Model ----------------------------
(***************************************************************************)
(* A model of the table extractor of Scrape-Soccer-Teams: parse.py         *)
(* (parse_monetary_value_to_billions, parse_percentage_value,              *)
(* parse_valuations).                                                      *)
(*                                                                         *)
(* Texts are sequences of one-character strings.  A document is what       *)
(* BeautifulSoup hands to the code: whether a <table> exists and, for each *)
(* <tr> of it in document order, the texts of its <td> cells.              *)
(***************************************************************************)
EXTENDS Integers, Sequences, FiniteSets

\* ------------------------------------------------------------------ bounds
\* Rows per document in the specification of the row loop.
MaxRows == 3
\* Rows per document in the specification that varies the numeric cells.
MaxNumRows == 1

\* ------------------------------------------------------------- characters
Digits == {"0", "1", "2", "3", "4", "5", "6", "7", "8", "9"}

\* "U" abbreviates the run of nineteen decimal digits 9223372036854775808
\* (2^63): TLC's integers are 32 bits wide, and the code's integers are not.
DigitRun == "U"

\* \d of the regular expressions: a decimal digit (a digit run is digits).
IsDigit(c) == c \in Digits \cup {DigitRun}

IsDigitOrDot(c) == IsDigit(c) \/ c = "."

Whitespace == {" ", "\t", "\n"}

DigitVal(c) ==
    CASE c = "0" -> 0 [] c = "1" -> 1 [] c = "2" -> 2 [] c = "3" -> 3
      [] c = "4" -> 4 [] c = "5" -> 5 [] c = "6" -> 6 [] c = "7" -> 7
      [] c = "8" -> 8 [] c = "9" -> 9

\* str.lower() and str.upper() on the letters the inputs use.
LowerChar(c) ==
    CASE c = "A" -> "a" [] c = "B" -> "b" [] c = "E" -> "e" [] c = "F" -> "f"
      [] c = "I" -> "i" [] c = "M" -> "m" [] c = "N" -> "n" [] c = "O" -> "o"
      [] c = "R" -> "r" [] OTHER -> c

UpperChar(c) ==
    CASE c = "a" -> "A" [] c = "b" -> "B" [] c = "e" -> "E" [] c = "f" -> "F"
      [] c = "i" -> "I" [] c = "m" -> "M" [] c = "n" -> "N" [] c = "o" -> "O"
      [] c = "r" -> "R" [] OTHER -> c

Lower(s) == [k \in 1..Len(s) |-> LowerChar(s[k])]

Upper(s) == [k \in 1..Len(s) |-> UpperChar(s[k])]

\* str.strip(): leading and trailing whitespace removed.
Strip(s) ==
    LET inked == {k \in 1..Len(s) : s[k] \notin Whitespace}
    IN  IF inked = {} THEN <<>>
        ELSE LET a == CHOOSE k \in inked : \A j \in inked : k <= j
                 b == CHOOSE k \in inked : \A j \in inked : k >= j
             IN  SubSeq(s, a, b)

\* cell.get_text(strip=True) of a cell that holds one text node.
GetText(cell) == Strip(cell)

\* re.sub(r'[^\d]', '', s)
OnlyDigits(s) == SelectSeq(s, IsDigit)

\* re.sub(r'[^\d.]', '', s)
OnlyDigitsAndDots(s) == SelectSeq(s, IsDigitOrDot)

RECURSIVE Pow10(_)
Pow10(n) == IF n = 0 THEN 1 ELSE 10 * Pow10(n - 1)

RECURSIVE DecVal(_)
\* The value of a sequence of decimal digits (0 for the empty sequence).
DecVal(ds) ==
    IF ds = <<>> THEN 0
    ELSE 10 * DecVal(SubSeq(ds, 1, Len(ds) - 1)) + DigitVal(ds[Len(ds)])

RECURSIVE StripZeros(_)
StripZeros(ds) ==
    IF ds # <<>> /\ ds[1] = "0" THEN StripZeros(Tail(ds)) ELSE ds

\* --------------------------------------------------------------- integers
\* A Python int n >= 0 is [hi, lo, big]:
\*   hi = 0:   n = lo                      (n < 2^63)
\*   hi = 1:   n = 2^63 + lo               (2^63 <= n < 2^64)
\*   hi = 2:   n >= 2^64, big its decimal digits without leading zeros
\*   hi = -1:  n = lo - 2^63               (an int64 below 0, after a wrap)
SmallInt(n) == [hi |-> 0, lo |-> n, big |-> <<>>]

\* int(ds) raises ValueError: no digit at all.  (The limit of 4300 digits of
\* int() is beyond every text of the model.)
IntRaises(ds) == ds = <<>>

\* int(ds) for a non-empty sequence of digits.
PyInt(ds) ==
    LET n == StripZeros(ds)
    IN  IF \A k \in 1..Len(n) : n[k] # DigitRun THEN SmallInt(DecVal(n))
        ELSE IF n = <<DigitRun>> THEN [hi |-> 1, lo |-> 0, big |-> <<>>]
        ELSE [hi |-> 2, lo |-> 0, big |-> n]

IntLess(a, b) == a.hi < b.hi \/ (a.hi = b.hi /\ a.lo < b.lo)


\* ----------------------------------------------------------------- floats
\* A float is [kind, m, e]: "fin" is the number m / 10^e (m carries the sign,
\* and m is no multiple of 10 unless e = 0), "inf" an infinity (m its sign),
\* "nan" a not-a-number.  None (Python's None) and ValueError (float() raised
\* ValueError) are not floats.
None == [kind |-> "none", m |-> 0, e |-> 0]

ValueError == [kind |-> "err", m |-> 0, e |-> 0]

NaN == [kind |-> "nan", m |-> 0, e |-> 0]

Inf(sign) == [kind |-> "inf", m |-> sign, e |-> 0]

RECURSIVE Fin(_, _)
Fin(m, e) ==
    IF e > 0 /\ m % 10 = 0 THEN Fin(m \div 10, e - 1)
    ELSE [kind |-> "fin", m |-> m, e |-> e]

IsFinite(x) == x.kind = "fin"

\* x / 1000.0
DivThousand(x) == IF x.kind = "fin" THEN Fin(x.m, x.e + 3) ELSE x

Count(s, c) == Cardinality({k \in 1..Len(s) : s[k] = c})

\* A decimal literal of float(): digits with at most one point among them.
IsDecimal(s) ==
    /\ \A k \in 1..Len(s) : s[k] \in Digits \cup {"."}
    /\ Count(s, ".") <= 1
    /\ \E k \in 1..Len(s) : s[k] \in Digits

\* An exponent of float(): an optional sign and at least one digit.
IsExponent(s) ==
    LET d == IF s # <<>> /\ s[1] \in {"+", "-"} THEN Tail(s) ELSE s
    IN  d # <<>> /\ \A k \in 1..Len(d) : d[k] \in Digits

ExponentVal(s) ==
    IF s[1] = "-" THEN 0 - DecVal(Tail(s))
    ELSE IF s[1] = "+" THEN DecVal(Tail(s)) ELSE DecVal(s)

\* The finite float that the decimal literal mant, times 10^x, denotes.
DecimalVal(sign, mant, x) ==
    LET dots  == {k \in 1..Len(mant) : mant[k] = "."}
        frac  == IF dots = {} THEN 0 ELSE Len(mant) - (CHOOSE k \in dots : TRUE)
        digs  == SelectSeq(mant, LAMBDA c : c # ".")
        shift == x - frac
    IN  IF shift >= 0 THEN Fin(sign * DecVal(digs) * Pow10(shift), 0)
        ELSE Fin(sign * DecVal(digs), 0 - shift)

\* float(s) of Python: surrounding whitespace is ignored; a sign, then "inf",
\* "infinity" or "nan" in any case, or a decimal literal with an optional
\* exponent.  Anything else raises ValueError.
PyFloat(s) ==
    LET t      == Strip(s)
        signed == t # <<>> /\ t[1] \in {"+", "-"}
        sign   == IF signed /\ t[1] = "-" THEN 0 - 1 ELSE 1
        body   == IF signed THEN Tail(t) ELSE t
        low    == Lower(body)
        es     == {k \in 1..Len(low) : low[k] = "e"}
        p      == IF es = {} THEN Len(body) + 1
                  ELSE CHOOSE k \in es : \A j \in es : k <= j
        mant   == SubSeq(body, 1, p - 1)
        expo   == SubSeq(body, p + 1, Len(body))
    IN  IF low \in {<<"i", "n", "f">>, <<"i", "n", "f", "i", "n", "i", "t", "y">>}
          THEN Inf(sign)
        ELSE IF low = <<"n", "a", "n">> THEN NaN
        ELSE IF ~IsDecimal(mant) THEN ValueError
        ELSE IF es = {} THEN DecimalVal(sign, mant, 0)
        ELSE IF ~IsExponent(expo) THEN ValueError
        ELSE DecimalVal(sign, mant, ExponentVal(expo))

\* ------------------------------------------------------------ normalizers
\* value_str_raw.strip().upper() in ['N/A', '-', '']
Sentinels == {<<"N", "/", "A">>, <<"-">>, <<>>}

\* not value_str_raw or value_str_raw.strip().upper() in ['N/A', '-', '']
IsSentinel(s) == s = <<>> \/ Upper(Strip(s)) \in Sentinels

\* The last index of the run of digits and points that starts at index a
\* (a - 1 when s[a] is neither).
RECURSIVE RunEnd(_, _)
RunEnd(s, a) ==
    IF a <= Len(s) /\ IsDigitOrDot(s[a]) THEN RunEnd(s, a + 1) ELSE a - 1

\* re.search(r'\$([\d.]+)([BM])', s, re.IGNORECASE): the indexes of the "$" of
\* every match; the search returns the leftmost.
MoneyMatches(s) ==
    {p \in 1..Len(s) :
        /\ s[p] = "$"
        /\ RunEnd(s, p + 1) >= p + 1
        /\ RunEnd(s, p + 1) + 1 <= Len(s)
        /\ UpperChar(s[RunEnd(s, p + 1) + 1]) \in {"B", "M"}}

Leftmost(ps) == CHOOSE p \in ps : \A q \in ps : p <= q

\* parse_monetary_value_to_billions with a fault: a number that does not
\* parse falls through to the bare-number attempt.
parse_monetary_value_to_billions_fallthrough(text) ==
    LET p           == Leftmost(MoneyMatches(text))
        r           == RunEnd(text, p + 1)
        cleaned     == OnlyDigitsAndDots(text)
    IN  IF IsSentinel(text) THEN None
        ELSE IF MoneyMatches(text) # {} /\ PyFloat(SubSeq(text, p + 1, r)) # ValueError
          THEN IF UpperChar(text[r + 1]) = "M"
                 THEN DivThousand(PyFloat(SubSeq(text, p + 1, r)))
                 ELSE PyFloat(SubSeq(text, p + 1, r))
        ELSE IF cleaned = <<>> \/ PyFloat(cleaned) = ValueError THEN None
        ELSE PyFloat(cleaned)

parse_monetary_value_to_billions(value_str_raw) ==
    IF IsSentinel(value_str_raw) THEN None
    ELSE IF MoneyMatches(value_str_raw) # {}
      THEN LET p           == Leftmost(MoneyMatches(value_str_raw))
               r           == RunEnd(value_str_raw, p + 1)
               val_num_str == SubSeq(value_str_raw, p + 1, r)
               unit        == value_str_raw[r + 1]
               valuation   == PyFloat(val_num_str)
           IN  IF valuation = ValueError THEN None
               ELSE IF UpperChar(unit) = "M" THEN DivThousand(valuation)
               ELSE valuation
    ELSE LET cleaned_val_str == OnlyDigitsAndDots(value_str_raw)
         IN  IF cleaned_val_str = <<>> THEN None
             ELSE IF PyFloat(cleaned_val_str) = ValueError THEN None
             ELSE PyFloat(cleaned_val_str)

\* re.search(r'([\d.]+)%', s): the first indexes of every match; the search
\* returns the leftmost, and its group runs up to the "%".
PercentMatches(s) ==
    {p \in 1..Len(s) :
        /\ RunEnd(s, p) >= p
        /\ RunEnd(s, p) + 1 <= Len(s)
        /\ s[RunEnd(s, p) + 1] = "%"}

\* parse_percentage_value with a fault: "19%" is returned as 0.19.
parse_percentage_value_as_fraction(text) ==
    IF IsSentinel(text) THEN None
    ELSE IF PercentMatches(text) # {}
      THEN LET p == Leftmost(PercentMatches(text))
               g == PyFloat(SubSeq(text, p, RunEnd(text, p)))
           IN  IF g = ValueError THEN None
               ELSE IF g.kind = "fin" THEN Fin(g.m, g.e + 2) ELSE g
    ELSE IF Strip(text) = <<>> \/ PyFloat(Strip(text)) = ValueError THEN None
    ELSE PyFloat(Strip(text))

parse_percentage_value(value_str_raw) ==
    IF IsSentinel(value_str_raw) THEN None
    ELSE IF PercentMatches(value_str_raw) # {}
      THEN LET p == Leftmost(PercentMatches(value_str_raw))
               g == SubSeq(value_str_raw, p, RunEnd(value_str_raw, p))
           IN  IF PyFloat(g) = ValueError THEN None ELSE PyFloat(g)
    ELSE LET stripped_val == Strip(value_str_raw)
         IN  IF stripped_val = <<>> THEN None
             ELSE IF PyFloat(stripped_val) = ValueError THEN None
             ELSE PyFloat(stripped_val)



\* ------------------------------------------------------------------ state
VARIABLES
    html,       \* the document: [table, rows], rows the cell texts of each <tr>
    pc,         \* where parse_valuations stands
    i,          \* the index (from 0) of the row the loop reads next
    data_rows,  \* the tuples admitted so far
    origin,     \* history: origin[k] is the row index that data_rows[k] came from
    fate,       \* history: what the loop did with each row read so far
    df,         \* the DataFrame, as the sequence of its rows in frame order
    result,     \* what parse_valuations returned: "pending", "None", "DataFrame"
    exc,        \* the exception that left parse_valuations, or "none"
    stdout,     \* what parse_valuations printed so far: for each print(), its
                \* text and the row index i it was made at (-1 outside the loop)
    value_str_raw,  \* the argument of a call of a normalizer by itself
    ret,            \* what that call returned, or Pending
    url,            \* fetch_html: its argument
    calls,          \* fetch_html: the requests issued so far, in order
    response,       \* fetch_html: r, the response of requests.get, or NoResponse
    returned_text   \* fetch_html: the value returned, once pc = "fetch_returned"

vars == <<html, pc, i, data_rows, origin, fate, df, result, exc, stdout,
          value_str_raw, ret, url, calls, response, returned_text>>

\* The state of parse_valuations and of the normalizers, for fetch_html.
parse_vars == <<html, i, data_rows, origin, fate, df, result, value_str_raw, ret>>

\* The state of fetch_html, for parse_valuations and the normalizers.
fetch_vars == <<url, calls, response, returned_text>>

\* requests.get has returned no response.
NoResponse == [status_code |-> 0, text |-> ""]

\* No call of a normalizer by itself has returned.
Pending == [kind |-> "pending", m |-> 0, e |-> 0]

EXPECTED_COLUMNS ==
    {"rank", "team", "country", "league", "value_usd_bln", "revenue_usd_bln",
     "ebitda_usd_bln", "debt_pct_value", "owners"}

numeric_cols == {"value_usd_bln", "revenue_usd_bln", "ebitda_usd_bln", "debt_pct_value"}

string_cols == {"team", "country", "league", "owners"}

\* len(cells) >= 9
RequiredCells == 9

\* ----------------------------------------------------------- the row loop
\* The texts of the nine cells that the loop reads from a row.
CellText(cells, col) ==
    CASE col = "rank"            -> GetText(cells[1])
      [] col = "team"            -> GetText(cells[2])
      [] col = "country"         -> GetText(cells[3])
      [] col = "league"          -> GetText(cells[4])
      [] col = "value_usd_bln"   -> GetText(cells[5])
      [] col = "revenue_usd_bln" -> GetText(cells[6])
      [] col = "ebitda_usd_bln"  -> GetText(cells[7])
      [] col = "debt_pct_value"  -> GetText(cells[8])
      [] col = "owners"          -> GetText(cells[9])

\* int(re.sub(r'[^\d]', '', rank_str)) raises ValueError
RankRaises(cells) == IntRaises(OnlyDigits(CellText(cells, "rank")))

\* rank = int(re.sub(r'[^\d]', '', rank_str))
RowRank(cells) == PyInt(OnlyDigits(CellText(cells, "rank")))

\* team = team_str
RowTeam(cells) == CellText(cells, "team")

\* The tuple that the loop builds from a row whose rank parses.
RowTuple(cells) ==
    [rank            |-> RowRank(cells),
     team            |-> RowTeam(cells),
     country         |-> CellText(cells, "country"),
     league          |-> CellText(cells, "league"),
     value_usd_bln   |-> parse_monetary_value_to_billions(CellText(cells, "value_usd_bln")),
     revenue_usd_bln |-> parse_monetary_value_to_billions(CellText(cells, "revenue_usd_bln")),
     ebitda_usd_bln  |-> parse_monetary_value_to_billions(CellText(cells, "ebitda_usd_bln")),
     debt_pct_value  |-> parse_percentage_value(CellText(cells, "debt_pct_value")),
     owners          |-> CellText(cells, "owners")]

\* is_duplicate with a fault: the teams are compared as they are written.
is_duplicate_case_sensitive(rows, rank, team) ==
    \E k \in 1..Len(rows) : rows[k].rank = rank \/ rows[k].team = team

\* is_duplicate with a fault: the ranks are not compared.
is_duplicate_team_only(rows, rank, team) ==
    \E k \in 1..Len(rows) : Lower(rows[k].team) = Lower(team)

\* is_duplicate with a fault: the teams are not compared.
is_duplicate_rank_only(rows, rank, team) ==
    \E k \in 1..Len(rows) : rows[k].rank = rank

\* is_duplicate with a fault: every row read so far that has a rank and a
\* team is compared, admitted or not.
is_duplicate_any_row_read(rows, rank, team) ==
    \E j \in 1..i :
        /\ Len(html.rows[j]) >= RequiredCells
        /\ ~RankRaises(html.rows[j])
        /\ RowTeam(html.rows[j]) # <<>>
        /\ \/ RowRank(html.rows[j]) = rank
           \/ Lower(RowTeam(html.rows[j])) = Lower(team)

\* is_duplicate with a fault: only the tuple admitted last is compared.
is_duplicate_last_only(rows, rank, team) ==
    /\ rows # <<>>
    /\ \/ rows[Len(rows)].rank = rank
       \/ Lower(rows[Len(rows)].team) = Lower(team)

\* any(r_data[0] == rank or r_data[1].lower() == team.lower() for r_data in data_rows)
is_duplicate(rows, rank, team) ==
    \E k \in 1..Len(rows) :
        rows[k].rank = rank \/ Lower(rows[k].team) = Lower(team)

\* RowFate with a fault: a row of which a numeric cell normalizes to None is
\* dropped.
RowFate_numbers_required(cells, rows) ==
    IF Len(cells) < RequiredCells THEN "too_few_cells"
    ELSE IF RankRaises(cells) THEN "rank_error"
    ELSE IF RowTeam(cells) = <<>> THEN "no_team"
    ELSE IF \E col \in numeric_cols : RowTuple(cells)[col] = None THEN "no_team"
    ELSE IF is_duplicate(rows, RowRank(cells), RowTeam(cells)) THEN "duplicate"
    ELSE "admitted"

\* What one iteration of the loop does with a row, given the tuples admitted
\* before it: too few cells (line 81), ValueError of int() (lines 93, 112),
\* an empty team (line 104), a duplicate (lines 105-106), or the append.
\* The normalizers of lines 99-102 raise nothing and decide nothing here.
RowFate(cells, rows) ==
    IF Len(cells) < RequiredCells THEN "too_few_cells"
    ELSE IF RankRaises(cells) THEN "rank_error"
    ELSE IF RowTeam(cells) = <<>> THEN "no_team"
    ELSE IF is_duplicate(rows, RowRank(cells), RowTeam(cells)) THEN "duplicate"
    ELSE "admitted"

\* ---------------------------------------------------------- the DataFrame
\* df['rank'].astype(int) raises OverflowError: an int beyond 2^64 - 1 makes
\* the column one of Python objects, and no such int converts to int64.
AstypeIntRaises(rows) == \E k \in 1..Len(rows) : rows[k].rank.hi = 2

\* df['rank'].astype(int) of one value: int64, a uint64 from 2^63 on wraps.
AstypeInt(rank) ==
    IF rank.hi = 1 THEN [hi |-> 0 - 1, lo |-> rank.lo, big |-> <<>>] ELSE rank

\* pd.to_numeric(..., errors='coerce') of one value: None becomes NaN.
ToNumeric(x) == IF x = None THEN NaN ELSE x

\* .astype(str).replace('None', '') of one value.
ReplaceNone(s) == IF s = <<"N", "o", "n", "e">> THEN <<>> ELSE s

\* Lines 127-135 on one tuple; index is its label in the frame.
FrameRow(t, index) ==
    [index           |-> index,
     rank            |-> AstypeInt(t.rank),
     team            |-> ReplaceNone(t.team),
     country         |-> ReplaceNone(t.country),
     league          |-> ReplaceNone(t.league),
     value_usd_bln   |-> ToNumeric(t.value_usd_bln),
     revenue_usd_bln |-> ToNumeric(t.revenue_usd_bln),
     ebitda_usd_bln  |-> ToNumeric(t.ebitda_usd_bln),
     debt_pct_value  |-> ToNumeric(t.debt_pct_value),
     owners          |-> ReplaceNone(t.owners)]

Orderings(n) == {p \in [1..n -> 1..n] : \A a, b \in 1..n : p[a] = p[b] => a = b}

\* SortedByRank with a fault: the frame is left in the order of admission.
SortedByRank_unsorted(f) == {f}

\* df.sort_values(by='rank'): the frames that hold the rows of f in ascending
\* order of rank.  The default sort is not stable: equal ranks may come out in
\* any order.
SortedByRank(f) ==
    {[k \in 1..Len(f) |-> f[p[k]]] : p \in
        {q \in Orderings(Len(f)) :
            \A a, b \in 1..Len(f) : a < b => ~IntLess(f[q[b]].rank, f[q[a]].rank)}}

\* The rows of f at the indexes in keep, in frame order.
Take(f, keep) ==
    [n \in 1..Cardinality(keep) |->
        f[CHOOSE k \in keep : Cardinality({j \in keep : j <= k}) = n]]

\* df.drop_duplicates(subset=['rank'], keep='first')
DropDuplicateRanks(f) ==
    Take(f, {k \in 1..Len(f) : \A j \in 1..(k - 1) : f[j].rank # f[k].rank})

\* df.drop_duplicates(subset=['team'], keep='first')
DropDuplicateTeams(f) ==
    Take(f, {k \in 1..Len(f) : \A j \in 1..(k - 1) : f[j].team # f[k].team})

\* ---------------------------------------------------------------- actions
\* Line 69: what parse_valuations returns when the document has no table.
NoTableResult == "None"

\* Line 125: what parse_valuations returns when no row was admitted.
NoRowsResult == "None"

\* FindTable with a fault: the rows are read whether or not a table was found.
FindTable_unchecked ==
    /\ pc = "start"
    /\ pc' = "loop"
    /\ UNCHANGED <<fetch_vars, html, i, data_rows, origin, fate, df, result, exc, stdout,
                 value_str_raw, ret>>

\* Line 68: print("No HTML table found on the page. Cannot parse valuations.")
NoTableMessage == [text |-> "No HTML table found", row |-> 0 - 1]

\* Lines 63-76: soup.find('table'); without a table, print and return None.
FindTable ==
    /\ pc = "start"
    /\ IF html.table
         THEN pc' = "loop" /\ result' = result /\ stdout' = stdout
         ELSE /\ pc' = "done" /\ result' = NoTableResult
              /\ stdout' = Append(stdout, NoTableMessage)
    /\ UNCHANGED <<fetch_vars, html, i, data_rows, origin, fate, df, exc,
                 value_str_raw, ret>>

\* Lines 79-121: one iteration of the loop over the rows.  Nothing is
\* printed: every print() of the loop (lines 114, 117, 120) is a comment.
ProcessRow ==
    /\ pc = "loop"
    /\ i < Len(html.rows)
    /\ LET cells == html.rows[i + 1]
           what  == RowFate(cells, data_rows)
       IN  /\ fate' = Append(fate, what)
           /\ IF what = "admitted"
                THEN /\ data_rows' = Append(data_rows, RowTuple(cells))
                     /\ origin' = Append(origin, i)
                ELSE UNCHANGED <<data_rows, origin>>
    /\ i' = i + 1
    /\ UNCHANGED <<fetch_vars, html, pc, df, result, exc, stdout,
                 value_str_raw, ret>>

\* Lines 123-135: return None without tuples; else the frame and its types.
BuildFrame ==
    /\ pc = "loop"
    /\ i = Len(html.rows)
    /\ IF data_rows = <<>>
         THEN pc' = "done" /\ result' = NoRowsResult /\ UNCHANGED <<df, exc>>
         ELSE IF AstypeIntRaises(data_rows)
           THEN pc' = "raised" /\ exc' = "OverflowError" /\ UNCHANGED <<df, result>>
           ELSE /\ pc' = "sort"
                /\ df' = [k \in 1..Len(data_rows) |-> FrameRow(data_rows[k], k - 1)]
                /\ UNCHANGED <<result, exc>>
    /\ UNCHANGED <<fetch_vars, html, i, data_rows, origin, fate, stdout,
                 value_str_raw, ret>>

\* Line 137: df.sort_values(by='rank', inplace=True)
SortValues ==
    /\ pc = "sort"
    /\ df' \in SortedByRank(df)
    /\ pc' = "dedup"
    /\ UNCHANGED <<fetch_vars, html, i, data_rows, origin, fate, result, exc, stdout,
                 value_str_raw, ret>>

\* Lines 138-141: the two drop_duplicates, and return df.
DropDuplicates ==
    /\ pc = "dedup"
    /\ df' = DropDuplicateTeams(DropDuplicateRanks(df))
    /\ result' = "DataFrame"
    /\ pc' = "done"
    /\ UNCHANGED <<fetch_vars, html, i, data_rows, origin, fate, exc, stdout,
                 value_str_raw, ret>>

Next == FindTable \/ ProcessRow \/ BuildFrame \/ SortValues \/ DropDuplicates

\* ----------------------------------------------------------------- inputs
Country == <<"E", "S">>

League == <<"L">>

Owners == <<"O">>

\* A row of nine cells.
Row(rank, team, value, revenue, ebitda, debt) ==
    <<rank, team, Country, League, value, revenue, ebitda, debt, Owners>>

\* The numeric cells of the rows that vary rank and team.
Value == <<"$", "6", ".", "7", "B">>

Revenue == <<"$", "9", "3", "0", "M">>

Ebitda == <<"N", "/", "A">>

Debt == <<"1", "9", "%">>

\* Rank cells: "1", "#2", "0" and 9223372036854775808.
RankTexts == {<<"1">>, <<"#", "2">>, <<"0">>, <<DigitRun>>}

\* Team cells: "A", "a" and "None".
TeamTexts == {<<"A">>, <<"a">>, <<"N", "o", "n", "e">>}

\* The header row (its rank cell has no digit), a row whose team is blank,
\* a row whose rank is 92233720368547758080, and a row of three cells.
OddRows ==
    {Row(<<"R", "a", "n", "k">>, <<"T", "e", "a", "m">>, <<"V">>, <<"V">>, <<"V">>, <<"V">>),
     Row(<<"1">>, <<" ">>, Value, Revenue, Ebitda, Debt),
     Row(<<DigitRun, "0">>, <<"B">>, Value, Revenue, Ebitda, Debt),
     <<<<"1">>, <<"B">>, Country>>}

Rows ==
    {Row(r, t, Value, Revenue, Ebitda, Debt) : r \in RankTexts, t \in TeamTexts}
    \cup OddRows

SeqsUpTo(S, n) == UNION {[1..k -> S] : k \in 0..n}

\* The documents: with or without a <table>, and the <tr> elements (those of
\* the table when there is one).
Documents(rowset, n) ==
    {[table |-> t, rows |-> rs] : t \in BOOLEAN, rs \in SeqsUpTo(rowset, n)}

InitWith(docs) ==
    /\ html \in docs
    /\ pc = "start"
    /\ i = 0
    /\ data_rows = <<>>
    /\ origin = <<>>
    /\ fate = <<>>
    /\ df = <<>>
    /\ result = "pending"
    /\ exc = "none"
    /\ stdout = <<>>
    /\ value_str_raw = <<>>
    /\ ret = Pending
    /\ url = ""
    /\ calls = <<>>
    /\ response = NoResponse
    /\ returned_text = ""

Init == InitWith(Documents(Rows, MaxRows))

Spec == Init /\ [][Next]_vars


\* Monetary cells: "$6.7B", "$930M", "$930m", "6.7", "N/A", "-", "" and
\* "$1.2.3B" (no number).
MonetaryTexts ==
    {<<"$", "6", ".", "7", "B">>, <<"$", "9", "3", "0", "M">>,
     <<"$", "9", "3", "0", "m">>, <<"6", ".", "7">>, <<"N", "/", "A">>,
     <<"-">>, <<>>, <<"$", "1", ".", "2", ".", "3", "B">>}

\* Percentage cells: "19%", "0%", "0", "N/A", "inf", "nan", "1e5", "-5" and
\* ".%" (no number).
PercentageTexts ==
    {<<"1", "9", "%">>, <<"0", "%">>, <<"0">>, <<"N", "/", "A">>,
     <<"i", "n", "f">>, <<"n", "a", "n">>, <<"1", "e", "5">>, <<"-", "5">>,
     <<".", "%">>}

\* Rows that vary the value and the debt cells.
NumRows ==
    {Row(r, <<"A">>, v, Revenue, Ebitda, d) :
        r \in {<<"1">>, <<"2">>}, v \in MonetaryTexts, d \in PercentageTexts}

InitNum == InitWith(Documents(NumRows, MaxNumRows))

SpecNum == InitNum /\ [][Next]_vars

\* ------------------------------------------- the normalizers by themselves
\* A call parse_monetary_value_to_billions(value_str_raw) from outside
\* parse_valuations.
CallMonetary ==
    /\ pc = "monetary"
    /\ ret' = parse_monetary_value_to_billions(value_str_raw)
    /\ pc' = "monetary_done"
    /\ UNCHANGED <<fetch_vars, html, i, data_rows, origin, fate, df, result, exc, stdout,
                   value_str_raw>>

\* A call parse_percentage_value(value_str_raw) from outside parse_valuations.
CallPercentage ==
    /\ pc = "percentage"
    /\ ret' = parse_percentage_value(value_str_raw)
    /\ pc' = "percentage_done"
    /\ UNCHANGED <<fetch_vars, html, i, data_rows, origin, fate, df, result, exc, stdout,
                   value_str_raw>>

NextNormalizers == CallMonetary \/ CallPercentage

\* The longest text that is built from an alphabet.
MaxTextLen == 5

MoneyAlphabet == {"$", "6", ".", "B", "m", " ", "-"}

PercentAlphabet == {"1", ".", "%", " ", "-"}

\* Arguments of parse_monetary_value_to_billions: every text over the
\* alphabet, the monetary cells, and "n/a", " N/A ", "$6.7b", "abc".
MonetaryInputs ==
    SeqsUpTo(MoneyAlphabet, MaxTextLen) \cup MonetaryTexts
    \cup {<<"n", "/", "a">>, <<" ", "N", "/", "A", " ">>,
          <<"$", "6", ".", "7", "b">>, <<"a", "b", "c">>}

\* Arguments of parse_percentage_value: every text over the alphabet, the
\* percentage cells, and "n/a", " N/A ", " 0 ", "abc".
PercentageInputs ==
    SeqsUpTo(PercentAlphabet, MaxTextLen) \cup PercentageTexts
    \cup {<<"n", "/", "a">>, <<" ", "N", "/", "A", " ">>,
          <<" ", "0", " ">>, <<"a", "b", "c">>}

InitNormalizers ==
    /\ \/ pc = "monetary" /\ value_str_raw \in MonetaryInputs
       \/ pc = "percentage" /\ value_str_raw \in PercentageInputs
    /\ ret = Pending
    /\ html = [table |-> FALSE, rows |-> <<>>]
    /\ i = 0
    /\ data_rows = <<>>
    /\ origin = <<>>
    /\ fate = <<>>
    /\ df = <<>>
    /\ result = "pending"
    /\ exc = "none"
    /\ stdout = <<>>
    /\ url = ""
    /\ calls = <<>>
    /\ response = NoResponse
    /\ returned_text = ""

SpecNormalizers == InitNormalizers /\ [][NextNormalizers]_vars

\* -------------------------------------------------------------- fetch_html
\* headers = {'User-Agent': 'Mozilla/5.0 ...'}
headers == "Mozilla/5.0"

\* The default of the parameter timeout.
timeout == 10

\* The final status that a server answers with, and the body it sends.
Statuses == {200, 204, 304, 400, 404, 500, 503}

Bodies == {"", "<!doctype html><table></table>", "Not Found"}

\* The exceptions of requests.get when no response arrives.
NetworkErrors == {"ConnectionError", "Timeout", "MissingSchema"}

Urls == {"https://www.cnbc.com/valuations.html", "http://nowhere.invalid/", "cnbc.com"}

\* Response.raise_for_status() raises HTTPError: 400 <= status_code < 600.
RaisesForStatus(status_code) == 400 <= status_code /\ status_code < 600

\* The except clauses with a fault: after a failure the request is made again.
Except_retry ==
    /\ pc = "except"
    /\ stdout' = Append(stdout, [text |-> "error occurred", row |-> 0 - 1])
    /\ exc' = "none"
    /\ pc' = "get"
    /\ UNCHANGED <<parse_vars, url, calls, response, returned_text>>

\* Line 10: r = requests.get(url, timeout=timeout, headers=headers).  One
\* request is issued; a response arrives, or requests raises.
Get ==
    /\ pc = "get"
    /\ calls' = Append(calls, [method |-> "GET", url |-> url,
                               timeout |-> timeout, headers |-> headers])
    /\ \/ /\ \E s \in Statuses, b \in Bodies : response' = [status_code |-> s, text |-> b]
          /\ pc' = "raise_for_status"
          /\ exc' = exc
       \/ /\ exc' \in NetworkErrors
          /\ pc' = "except"
          /\ response' = response
    /\ UNCHANGED <<parse_vars, stdout, url, returned_text>>

\* Line 11: r.raise_for_status()
RaiseForStatus ==
    /\ pc = "raise_for_status"
    /\ IF RaisesForStatus(response.status_code)
         THEN exc' = "HTTPError" /\ pc' = "except"
         ELSE exc' = exc /\ pc' = "return"
    /\ UNCHANGED <<parse_vars, stdout, url, calls, response, returned_text>>

\* Line 12: return r.text
ReturnText ==
    /\ pc = "return"
    /\ returned_text' = response.text
    /\ pc' = "fetch_returned"
    /\ UNCHANGED <<parse_vars, stdout, exc, url, calls, response>>

\* Lines 13-16: except HTTPError: print and raise.
ExceptHTTPError ==
    /\ pc = "except"
    /\ exc = "HTTPError"
    /\ stdout' = Append(stdout, [text |-> "HTTP error occurred", row |-> 0 - 1])
    /\ pc' = "fetch_raised"
    /\ UNCHANGED <<parse_vars, exc, url, calls, response, returned_text>>

\* Lines 17-20: except Exception: print and raise.
ExceptException ==
    /\ pc = "except"
    /\ exc # "HTTPError"
    /\ stdout' = Append(stdout, [text |-> "Other error occurred", row |-> 0 - 1])
    /\ pc' = "fetch_raised"
    /\ UNCHANGED <<parse_vars, exc, url, calls, response, returned_text>>

NextFetch == Get \/ RaiseForStatus \/ ReturnText \/ ExceptHTTPError \/ ExceptException

InitFetch ==
    /\ pc = "get"
    /\ url \in Urls
    /\ calls = <<>>
    /\ response = NoResponse
    /\ returned_text = ""
    /\ exc = "none"
    /\ stdout = <<>>
    /\ html = [table |-> FALSE, rows |-> <<>>]
    /\ i = 0
    /\ data_rows = <<>>
    /\ origin = <<>>
    /\ fate = <<>>
    /\ df = <<>>
    /\ result = "pending"
    /\ value_str_raw = <<>>
    /\ ret = Pending

SpecFetch == InitFetch /\ [][NextFetch]_vars

\* ------------------------------------------------------------- vocabulary
\* parse_valuations returned a record set.
Returned == pc = "done" /\ result = "DataFrame"

\* Row j (from 0) has at least nine cells, a rank that parses and a team.
ValidRow(j) ==
    /\ Len(html.rows[j + 1]) >= RequiredCells
    /\ ~RankRaises(html.rows[j + 1])
    /\ RowTeam(html.rows[j + 1]) # <<>>

\* The record that the loop built from row j (from 0) is in the frame.
Retained(j) == \E k \in 1..Len(df) : origin[df[k].index + 1] = j

\* A record with the rank and the team of row j (from 0) is in the frame,
\* whichever row it was built from.
Appears(j) ==
    \E k \in 1..Len(df) :
        /\ df[k].rank = AstypeInt(RowRank(html.rows[j + 1]))
        /\ df[k].team = ReplaceNone(RowTeam(html.rows[j + 1]))

RowIndexes == 0..(Len(html.rows) - 1)

\* ------------------------------------------------------------------ C1
\* C1: the ranks of the returned records, in output order, are strictly
\* increasing.
C1_RanksStrictlyIncreasing ==
    Returned => \A a, b \in 1..Len(df) : a < b => IntLess(df[a].rank, df[b].rank)

\* Two records returned whose rows stood in the document in descending order
\* of rank.
C1_Witness ==
    /\ Returned
    /\ \E a, b \in 1..Len(df) : a < b /\ df[a].index > df[b].index

\* ------------------------------------------------------------------ C2
\* C2: no two returned records have teams that are equal ignoring case.
C2_TeamsUniqueIgnoringCase ==
    Returned =>
        \A a, b \in 1..Len(df) : a # b => Lower(df[a].team) # Lower(df[b].team)

\* A record set returned from a document with two valid rows of different
\* ranks whose teams differ only in case.
C2_Witness ==
    /\ Returned
    /\ \E j, k \in RowIndexes :
        /\ j < k /\ ValidRow(j) /\ ValidRow(k)
        /\ RowRank(html.rows[j + 1]) # RowRank(html.rows[k + 1])
        /\ RowTeam(html.rows[j + 1]) # RowTeam(html.rows[k + 1])
        /\ Lower(RowTeam(html.rows[j + 1])) = Lower(RowTeam(html.rows[k + 1]))

\* ------------------------------------------------------------------ C3
\* Rows j < k are valid, share a rank and differ in team.
SameRankPair(j, k) ==
    /\ j < k /\ ValidRow(j) /\ ValidRow(k)
    /\ RowRank(html.rows[j + 1]) = RowRank(html.rows[k + 1])
    /\ RowTeam(html.rows[j + 1]) # RowTeam(html.rows[k + 1])

\* C3 as claimed: of any two valid rows with the same rank and different
\* teams, the earlier appears in the output and the later does not.
C3_AsClaimed ==
    Returned =>
        \A j, k \in RowIndexes : SameRankPair(j, k) => Appears(j) /\ ~Appears(k)

\* C3: of two valid rows with the same rank and different teams, the earlier
\* of which was admitted, the earlier's own record is in the output and no
\* record with the later's rank and team is.
C3_FirstAdmittedRankWins ==
    Returned =>
        \A j, k \in RowIndexes :
            SameRankPair(j, k) /\ fate[j + 1] = "admitted"
                => Retained(j) /\ ~Appears(k)

C3_Witness ==
    /\ Returned
    /\ \E j, k \in RowIndexes : SameRankPair(j, k) /\ fate[j + 1] = "admitted"

\* ------------------------------------------------------------------ C4
\* Rows j < k are valid, have teams equal ignoring case and differ in rank.
SameTeamPair(j, k) ==
    /\ j < k /\ ValidRow(j) /\ ValidRow(k)
    /\ Lower(RowTeam(html.rows[j + 1])) = Lower(RowTeam(html.rows[k + 1]))
    /\ RowRank(html.rows[j + 1]) # RowRank(html.rows[k + 1])

\* C4 as claimed: of any two valid rows with teams equal ignoring case and
\* different ranks, the earlier appears in the output and the later does not.
C4_AsClaimed ==
    Returned =>
        \A j, k \in RowIndexes : SameTeamPair(j, k) => Appears(j) /\ ~Appears(k)

\* C4: of two valid rows with teams equal ignoring case and different ranks,
\* the earlier of which was admitted, the earlier's own record is in the
\* output and no record with the later's rank and team is, also when the
\* later has the smaller rank.
C4_FirstAdmittedTeamWins ==
    Returned =>
        \A j, k \in RowIndexes :
            SameTeamPair(j, k) /\ fate[j + 1] = "admitted"
                => Retained(j) /\ ~Appears(k)

\* Such a pair where the later row has the smaller rank.
C4_Witness ==
    /\ Returned
    /\ \E j, k \in RowIndexes :
        /\ SameTeamPair(j, k) /\ fate[j + 1] = "admitted"
        /\ IntLess(RowRank(html.rows[k + 1]), RowRank(html.rows[j + 1]))

\* ------------------------------------------------------------------ C5
\* C5: without a table, parse_valuations ends at once with None: no
\* exception, no row read, no tuple, no frame.
C5_NoTableGivesNone ==
    ~html.table =>
        /\ pc \in {"start", "done"}
        /\ pc = "done" => result = "None"
        /\ pc = "start" => result = "pending"
        /\ exc = "none"
        /\ i = 0 /\ fate = <<>> /\ data_rows = <<>> /\ df = <<>>

\* The call has ended on a document that has rows and no table.
C5_Witness == ~html.table /\ pc = "done" /\ Len(html.rows) > 0

\* ------------------------------------------------------------------ C6
\* C6: the result for a table of which no row survived differs from the
\* result for a document without a table.
C6_FailuresDistinguished ==
    (pc = "done" /\ html.table /\ data_rows = <<>>) => result # NoTableResult

\* ------------------------------------------------------------------ C7
\* C7: no exception leaves parse_valuations, whatever the rows hold, and
\* every row read was handled by itself: a valid row that clashes with no
\* admitted row is admitted, whatever became of the rows around it.
C7_NoExceptionEscapes ==
    /\ exc = "none"
    /\ pc # "raised"
    /\ \A j \in 0..(Len(fate) - 1) :
        (ValidRow(j) /\ \A k \in 1..Len(origin) :
            origin[k] < j =>
                /\ data_rows[k].rank # RowRank(html.rows[j + 1])
                /\ Lower(data_rows[k].team) # Lower(RowTeam(html.rows[j + 1])))
        => fate[j + 1] = "admitted"

\* ------------------------------------------------------------------ C8
\* An absent numeric field of a returned record: NaN.
Absent == NaN

\* C8: every numeric field of a returned record is a finite float or absent.
C8_NumericFiniteOrAbsent ==
    Returned => \A k \in 1..Len(df) : \A col \in numeric_cols :
        df[k][col] = Absent \/ IsFinite(df[k][col])

\* ------------------------------------------------------------------ C9
\* C9: every returned record has a rank of at least 1.
C9_RankPositive ==
    Returned => \A k \in 1..Len(df) : IntLess(SmallInt(0), df[k].rank)

\* ------------------------------------------------------------------ C10
\* C10: every returned record has a non-empty team.
C10_TeamNonEmpty ==
    Returned => \A k \in 1..Len(df) : df[k].team # <<>>

\* ------------------------------------------------------------------ C11
\* The index, in a row, of the cell that a numeric column is read from.
NumericCell(col) ==
    CASE col = "value_usd_bln" -> 5 [] col = "revenue_usd_bln" -> 6
      [] col = "ebitda_usd_bln" -> 7 [] col = "debt_pct_value" -> 8

\* The normalizer that the loop applies to the cell of a numeric column.
Normalized(col, text) ==
    IF col = "debt_pct_value" THEN parse_percentage_value(text)
    ELSE parse_monetary_value_to_billions(text)

\* The row with each numeric cell, but that of column col, replaced by a text
\* that normalizes to a number (col = "rank": all four are replaced).
Reference(cells, col) ==
    [n \in 1..Len(cells) |->
        IF n \in 5..8 /\ (col \notin numeric_cols \/ n # NumericCell(col))
          THEN IF n = 8 THEN Debt ELSE Value
          ELSE cells[n]]

\* Row j (from 0) clashes in rank or team with a row admitted before it.
ClashesWithAdmitted(j) ==
    \E k \in 1..Len(origin) :
        /\ origin[k] < j
        /\ \/ data_rows[k].rank = RowRank(html.rows[j + 1])
           \/ Lower(data_rows[k].team) = Lower(RowTeam(html.rows[j + 1]))

\* The field of column col of the record that lines 93-102 and 127-135 make
\* of a row.
FieldOf(col, cells) ==
    IF col = "rank" THEN AstypeInt(RowRank(cells))
    ELSE IF col \in string_cols THEN ReplaceNone(CellText(cells, col))
    ELSE ToNumeric(Normalized(col, CellText(cells, col)))

\* The record t is what the code makes of the row cells, as far as the
\* numeric cells allow: an absent field for each numeric cell that normalizes
\* to None, and every field what it is when the other numeric cells hold
\* numbers.
RecordOf(t, cells) ==
    /\ \A col \in EXPECTED_COLUMNS \ numeric_cols :
          t[col] = FieldOf(col, Reference(cells, "rank"))
    /\ \A col \in numeric_cols :
          /\ t[col] = FieldOf(col, Reference(cells, col))
          /\ Normalized(col, CellText(cells, col)) = None => t[col] = Absent

\* C11: a row read that is valid and clashes with no admitted row is admitted
\* whatever its numeric cells hold, and its record is in the output: a
\* numeric cell that does not normalize makes that field absent and changes
\* no other field.
C11_AbsentFieldKeepsRecord ==
    \A j \in 0..(Len(fate) - 1) :
        ValidRow(j) /\ ~ClashesWithAdmitted(j) =>
            /\ fate[j + 1] = "admitted"
            /\ \E k \in 1..Len(data_rows) :
                  /\ origin[k] = j
                  /\ RecordOf(FrameRow(data_rows[k], k - 1), html.rows[j + 1])
            /\ Returned =>
                  \E k \in 1..Len(df) :
                      /\ origin[df[k].index + 1] = j
                      /\ RecordOf(df[k], html.rows[j + 1])

\* A record returned from a row whose value cell is "$1.2.3B" and whose debt
\* cell is ".%": both fields are absent.
C11_Witness ==
    /\ Returned
    /\ \E k \in 1..Len(df) :
          /\ html.rows[origin[df[k].index + 1] + 1][5] = <<"$", "1", ".", "2", ".", "3", "B">>
          /\ html.rows[origin[df[k].index + 1] + 1][8] = <<".", "%">>
          /\ df[k].value_usd_bln = Absent
          /\ df[k].debt_pct_value = Absent
          /\ df[k].revenue_usd_bln = Fin(93, 2)

\* ------------------------------------------------------------------ C12
\* Row j (from 0) has fewer cells than the loop requires.
ShortRow(j) == Len(html.rows[j + 1]) < RequiredCells

\* Something was printed while the loop stood at row j (from 0).
Reported(j) == \E n \in 1..Len(stdout) : stdout[n].row = j

\* The loop has ended.
LoopEnded == html.table /\ pc \in {"sort", "dedup", "done", "raised"}

\* A short row read is skipped: no tuple and no record comes from it, and
\* the loop goes on to read every row after it.
ShortRowsSkipped ==
    /\ \A j \in 0..(Len(fate) - 1) :
          ShortRow(j) =>
              /\ fate[j + 1] = "too_few_cells"
              /\ \A k \in 1..Len(origin) : origin[k] # j
              /\ \A k \in 1..Len(df) : origin[df[k].index + 1] # j
    /\ LoopEnded => Len(fate) = Len(html.rows)

\* A short row read is reported exactly when it is not row 0.
ShortRowsReported ==
    \A j \in 0..(Len(fate) - 1) : ShortRow(j) => (Reported(j) <=> j > 0)

\* C12: a row of fewer than nine cells never appears in the output and does
\* not stop the loop; it is skipped without a diagnostic as row 0 and with a
\* diagnostic as any later row.
C12_ShortRowSkippedWithDiagnostic == ShortRowsSkipped /\ ShortRowsReported

\* ------------------------------------------------------------------ C13
\* The text is empty, or trimmed it is "N/A" in any case, "-" or empty.
IsMissing(text) ==
    \/ text = <<>>
    \/ Lower(Strip(text)) = <<"n", "/", "a">>
    \/ Strip(text) \in {<<"-">>, <<>>}

\* The parse of a number: absent when it fails.
NumberOrAbsent(text) == IF PyFloat(text) = ValueError THEN None ELSE PyFloat(text)

\* The places <<a, b>> where the text holds $<number><unit>: a "$" at a, a
\* unit at b, and one or more digits and points between them.
DollarNumberUnit(text) ==
    {ab \in (1..Len(text)) \X (1..Len(text)) :
        /\ ab[1] + 1 < ab[2]
        /\ text[ab[1]] = "$"
        /\ text[ab[2]] \in {"B", "b", "M", "m"}
        /\ \A k \in (ab[1] + 1)..(ab[2] - 1) : text[k] \in Digits \cup {"."}}

\* The chain of the monetary normalizer, step by step.
MonetaryChain(text) ==
    LET found == DollarNumberUnit(text)
        first == CHOOSE ab \in found : \A cd \in found : ab[1] <= cd[1]
        number == NumberOrAbsent(SubSeq(text, first[1] + 1, first[2] - 1))
        rest == SelectSeq(text, LAMBDA c : c \in Digits \cup {"."})
    IN  IF IsMissing(text) THEN None
        ELSE IF found # {}
          THEN IF number # None /\ text[first[2]] \in {"M", "m"}
                 THEN DivThousand(number) ELSE number
        ELSE IF rest = <<>> THEN None
        ELSE NumberOrAbsent(rest)

\* C13: parse_monetary_value_to_billions returns, for every text, what the
\* chain gives: absent for a missing value; else the number of the first
\* $<number><unit>, divided by 1000 for unit M, or absent when that number
\* does not parse; else the parse of the digits and points of the text.
\* "$6.7B" gives 6.7, "$930M" 0.93, "N/A", "-" and "" absent, "6.7" 6.7.
C13_MonetaryChain ==
    pc = "monetary_done" =>
        /\ ret = MonetaryChain(value_str_raw)
        /\ value_str_raw = <<"$", "6", ".", "7", "B">> => ret = Fin(67, 1)
        /\ value_str_raw = <<"$", "9", "3", "0", "M">> => ret = Fin(93, 2)
        /\ value_str_raw \in {<<"N", "/", "A">>, <<"-">>, <<>>} => ret = None
        /\ value_str_raw = <<"6", ".", "7">> => ret = Fin(67, 1)

\* The call returned absent for "$.B6": the number "." of the $<number><unit>
\* does not parse, though the digits and points ".6" of the text would.
C13_Witness ==
    /\ pc = "monetary_done"
    /\ value_str_raw = <<"$", ".", "B", "6">>
    /\ ret = None

\* ------------------------------------------------------------------ C14
\* The places b of a "%" that follows a digit or a point.
NumberPercent(text) ==
    {b \in 2..Len(text) : text[b] = "%" /\ text[b - 1] \in Digits \cup {"."}}

\* The chain of the percentage normalizer, step by step.
PercentageChain(text) ==
    LET found == NumberPercent(text)
        b == CHOOSE x \in found : \A y \in found : x <= y
        a == CHOOSE x \in 1..(b - 1) :
                /\ \A k \in x..(b - 1) : text[k] \in Digits \cup {"."}
                /\ x > 1 => text[x - 1] \notin Digits \cup {"."}
    IN  IF IsMissing(text) THEN None
        ELSE IF found # {} THEN NumberOrAbsent(SubSeq(text, a, b - 1))
        ELSE NumberOrAbsent(Strip(text))

\* C14: parse_percentage_value returns, for every text, what the chain gives:
\* absent for a missing value; else the number before the first <number>%,
\* as it is written, or absent when it does not parse; else the parse of the
\* trimmed text.  "19%" gives 19.0, "0%" 0.0, "N/A" absent, "0" 0.0.
C14_PercentageChain ==
    pc = "percentage_done" =>
        /\ ret = PercentageChain(value_str_raw)
        /\ value_str_raw = <<"1", "9", "%">> => ret = Fin(19, 0)
        /\ value_str_raw = <<"0", "%">> => ret = Fin(0, 0)
        /\ value_str_raw = <<"N", "/", "A">> => ret = None
        /\ value_str_raw = <<"0">> => ret = Fin(0, 0)

\* The call returned 19.0 for "19%".
C14_Witness ==
    /\ pc = "percentage_done"
    /\ value_str_raw = <<"1", "9", "%">>
    /\ ret = Fin(19, 0)

\* ------------------------------------------------------------------ C15
\* The call of fetch_html has ended.
FetchEnded == pc \in {"fetch_returned", "fetch_raised"}

\* C15: fetch_html issues one GET request to its url and no second one; it
\* stops only by returning or by raising; with a success status it returns
\* the body of the response; with a 4xx or 5xx status it raises HTTPError,
\* and without a response the exception of requests, returning nothing.
C15_OneGetThenReturnOrRaise ==
    /\ Len(calls) <= 1
    /\ pc # "get" => Len(calls) = 1 /\ calls[1].method = "GET" /\ calls[1].url = url
    /\ ~ENABLED NextFetch => FetchEnded
    /\ FetchEnded =>
          /\ response.status_code \in 200..299 => pc = "fetch_returned"
          /\ pc = "fetch_returned" => exc = "none" /\ response # NoResponse /\ returned_text = response.text
          /\ response.status_code \in 400..599 => pc = "fetch_raised" /\ exc = "HTTPError"
          /\ response = NoResponse => pc = "fetch_raised" /\ exc \in NetworkErrors
          /\ pc = "fetch_raised" => exc # "none" /\ returned_text = ""

\* A call ended by raising HTTPError after its one request was answered 404.
C15_Witness ==
    /\ pc = "fetch_raised"
    /\ exc = "HTTPError"
    /\ response.status_code = 404
    /\ Len(calls) = 1

\* ------------------------------------------------------------------ C16
\* Row k (from 0) was admitted before row j and has the rank of row j or,
\* ignoring case, its team.
AdmittedClash(k, j) ==
    /\ k < j
    /\ fate[k + 1] = "admitted"
    /\ \/ RowRank(html.rows[k + 1]) = RowRank(html.rows[j + 1])
       \/ Lower(RowTeam(html.rows[k + 1])) = Lower(RowTeam(html.rows[j + 1]))

\* Row k (from 0) was rejected before row j, though valid, and has the rank
\* of row j or, ignoring case, its team.
RejectedClash(k, j) ==
    /\ k < j
    /\ ValidRow(k)
    /\ fate[k + 1] # "admitted"
    /\ \/ RowRank(html.rows[k + 1]) = RowRank(html.rows[j + 1])
       \/ Lower(RowTeam(html.rows[k + 1])) = Lower(RowTeam(html.rows[j + 1]))

\* The row indexes admitted so far, in document order.
AdmittedIndexes ==
    SelectSeq([n \in 1..Len(fate) |-> n - 1], LAMBDA j : fate[j + 1] = "admitted")

\* C16: a row read is admitted exactly when it has nine cells or more, a rank
\* that parses, a team, and no clash of rank or team with a row admitted
\* before it, whatever rows were rejected before it; and the tuples kept are,
\* at every moment, those of the admitted rows in document order.
C16_AdmittedExactlyWhen ==
    /\ \A j \in 0..(Len(fate) - 1) :
          fate[j + 1] = "admitted" <=>
              /\ Len(html.rows[j + 1]) >= RequiredCells
              /\ ~RankRaises(html.rows[j + 1])
              /\ RowTeam(html.rows[j + 1]) # <<>>
              /\ \A k \in 0..(j - 1) : ~AdmittedClash(k, j)
    /\ origin = AdmittedIndexes
    /\ Len(data_rows) = Len(origin)
    /\ \A k \in 1..Len(data_rows) :
          /\ data_rows[k].rank = RowRank(html.rows[origin[k] + 1])
          /\ data_rows[k].team = RowTeam(html.rows[origin[k] + 1])
          /\ data_rows[k].owners = CellText(html.rows[origin[k] + 1], "owners")

\* A row was admitted that clashes with a valid row rejected before it, and
\* its record was returned.
C16_Witness ==
    /\ Returned
    /\ \E j \in RowIndexes :
          /\ fate[j + 1] = "admitted"
          /\ Retained(j)
          /\ \E k \in 0..(j - 1) : RejectedClash(k, j)

\* ------------------------------------------------------------------ C17
RECURSIVE IndexedCheck(_, _)
\* A first-seen-wins check of the first n rows with an index of the ranks
\* and of the lowercased teams seen on admitted rows: the row indexes kept.
IndexedCheck(rows, n) ==
    IF n = 0 THEN [kept |-> <<>>, seen_ranks |-> {}, seen_teams |-> {}]
    ELSE LET before == IndexedCheck(rows, n - 1)
             cells  == rows[n]
         IN  IF /\ Len(cells) >= RequiredCells
                /\ ~RankRaises(cells)
                /\ RowTeam(cells) # <<>>
                /\ RowRank(cells) \notin before.seen_ranks
                /\ Lower(RowTeam(cells)) \notin before.seen_teams
               THEN [kept       |-> Append(before.kept, n - 1),
                     seen_ranks |-> before.seen_ranks \cup {RowRank(cells)},
                     seen_teams |-> before.seen_teams \cup {Lower(RowTeam(cells))}]
               ELSE before

\* C17: the final pass agrees with the per-row check.  The two
\* drop_duplicates remove no row of the sorted frame; the output holds one
\* record for each tuple accumulated, in ascending order of rank; and the
\* rows accumulated are those that the indexed check keeps.
C17_FinalPassRemovesNothing ==
    /\ pc = "dedup" => DropDuplicateTeams(DropDuplicateRanks(df)) = df
    /\ Returned =>
          /\ Len(df) = Len(data_rows)
          /\ \A n \in 1..Len(data_rows) : \E k \in 1..Len(df) : df[k].index = n - 1
          /\ \A k \in 1..Len(df) :
                df[k] = FrameRow(data_rows[df[k].index + 1], df[k].index)
          /\ \A a, b \in 1..Len(df) : a < b => IntLess(df[a].rank, df[b].rank)
          /\ origin = IndexedCheck(html.rows, Len(html.rows)).kept

\* A record set returned from tuples accumulated out of rank order,
\* after a row was rejected as a duplicate.
C17_Witness ==
    /\ Returned
    /\ Len(data_rows) >= 2
    /\ \E k \in 1..(Len(data_rows) - 1) :
          IntLess(data_rows[k + 1].rank, data_rows[k].rank)
    /\ \E j \in 1..Len(fate) : fate[j] = "duplicate"

=============================================================================
